---------------------------- MODULE Spec2Model ----------------------------
(***************************************************************************)
(* A model of the blackjack simulation: the participant class              *)
(* (src/module/classes/participant.py) and the game class                  *)
(* (src/module/.ipynb_checkpoints/blackjack-checkpoint.py).                *)
(*                                                                         *)
(* Money is kept in half units wherever a payout is recorded: a blackjack  *)
(* pays bet * 1.5, which is not an integer, so an entry of runW is the     *)
(* recorded payout times Half.  Bets themselves are plain integers.        *)
(***************************************************************************)
EXTENDS Integers, Sequences, FiniteSets, TLC

(***************************************************************************)
(* Bounds of the model.                                                    *)
(***************************************************************************)
\* result() is called at most MaxRounds times per player between two
\* reset(running = True) calls.
MaxRounds == 1
\* play() is called at most MaxPlays times on one game object.
MaxPlays == 2
\* A shoe holds at most MaxShoe cards of every rank when a bet is sized.
MaxShoe == 104
\* The running count is between -MaxCount and MaxCount when a bet is sized.
MaxCount == 3
\* A hand handed to result holds at most MaxHand cards, the dealer's at most
\* MaxDealerHand.
MaxHand == 5
MaxDealerHand == 3

(***************************************************************************)
(* module.settings: the configuration constants.  The file is not part of  *)
(* the sources at hand; the values follow the specification (13 ranks, an  *)
(* ace worth 1 or 11, a count weight per rank).                            *)
(***************************************************************************)
CARDS == <<"A", "2", "3", "4", "5", "6", "7", "8", "9", "10", "J", "Q", "K">>

\* The candidate values of the rank at an index: settings.VALUE[index] is a
\* list for the ace and a number for every other rank.
VALUE(index) ==
  IF index = 1 THEN {1, 11}
  ELSE IF index <= 10 THEN {index}
  ELSE {10}

\* The weight a drawn rank adds to the running count.
CARDS_COUNT(index) ==
  IF index = 1 \/ index >= 10 THEN -1
  ELSE IF index <= 6 THEN 1
  ELSE 0

MIN_BET == 2

\* The number of cards per deck in the true count (52 in the specification).
N_CARD_EACH_DECK == 52

Half == 2

Ranks == 1..Len(CARDS)

(***************************************************************************)
(* The participants: the game's dealer (ptype 'd') and the players         *)
(* (ptype 'p').                                                            *)
(***************************************************************************)
Dealer == "d"

AllPlayers == {"p1", "p2"}

\* The participants whose methods are called from outside the game class.
Called == {Dealer, "p1"}

CalledPlayers == Called \ {Dealer}

Participants == {Dealer} \cup AllPlayers

ptype(x) == IF x = Dealer THEN "d" ELSE "p"

None == "None"

VARIABLES
  cards,      \* cards[x]: the ranks x has drawn, in order
  possible,   \* possible[x]: the possible totals of x's hand
  value,      \* value[x]
  bet,        \* bet[x]
  active,     \* active[x]
  bust,       \* bust[x]
  runV,       \* runV[x]: the values recorded by result
  runW,       \* runW[x]: the payouts recorded by result, in half units
  players,    \* blackjack.players
  num_cards,  \* blackjack.num_cards: the remaining count of each rank
  count,      \* blackjack.count: the running count
  pc,         \* the line of play() that runs next, "idle" outside play()
  i,          \* the position of the running for loop of play() in players
  ps,         \* the frame of the running play_strategy call
  raised,     \* the exception the last call ended with, "" when it returned
  resolved,   \* history: result calls on x since its last reset(True)
  plays,      \* history: the number of play() calls so far
  events      \* history: what the running (or last) play() call has done

hand == <<cards, possible, value, bet, active, bust>>

vars == <<cards, possible, value, bet, active, bust, runV, runW, players,
          num_cards, count, pc, i, ps, raised, resolved, plays, events>>

(***************************************************************************)
(* Helpers.                                                                *)
(***************************************************************************)
RECURSIVE SumTo(_, _)
SumTo(f, n) == IF n = 0 THEN 0 ELSE f[n] + SumTo(f, n - 1)

\* sum(num_cards)
sum(deck) == SumTo(deck, Len(CARDS))

\* np.max of a non-empty set of totals
Max(S) == CHOOSE m \in S : \A n \in S : n <= m

\* The frame of play_strategy when no call is running.
NoFrame ==
  [on |-> FALSE, who |-> None, dealer |-> None, action |-> "",
   updated_num_cards |-> <<>>, updated_count |-> 0, key |-> <<>>,
   caller |-> None, bet_at_call |-> 0]


\* A deck given by the counts of the ranks it holds (every other rank 0).
DeckOf(f) == [index \in Ranks |-> IF index \in DOMAIN f THEN f[index] ELSE 0]

\* The deck a game is constructed with: an ace, a two and two tens.
InitDecks == { DeckOf((1 :> 1) @@ (2 :> 1) @@ (10 :> 2)) }

\* Longer shoes: an ace, a two and three tens; an ace and five twos.
LongDecks ==
  { DeckOf((1 :> 1) @@ (2 :> 1) @@ (10 :> 3)),
    DeckOf((1 :> 1) @@ (2 :> 5)) }

\* The running counts a game is constructed with.
InitCounts == {0}

\* The shoes and the running counts a bet is sized on: up to MaxShoe cards
\* of every rank, none included.
CountingDecks == {[index \in Ranks |-> n] : n \in 0..MaxShoe}

CountingCounts == (0 - MaxCount)..MaxCount

\* A cell of a strategy table is one of H (hit), S (stand), D (double).
Actions == {"H", "S", "D"}

(***************************************************************************)
(* participant.__init__ and blackjack.__init__                             *)
(***************************************************************************)
InitOf(decks, counts) ==
  /\ cards = [x \in Participants |-> <<>>]
  /\ possible = [x \in Participants |-> {0}]
  /\ value = [x \in Participants |-> 0]
  /\ bet = [x \in Participants |-> 0]
  /\ active = [x \in Participants |-> TRUE]
  /\ bust = [x \in Participants |-> FALSE]
  /\ runV = [x \in Participants |-> <<>>]
  /\ runW = [x \in Participants |-> <<>>]
  /\ players = <<>>
  /\ num_cards \in decks
  /\ count \in counts
  /\ pc = "idle"
  /\ i = 1
  /\ ps = NoFrame
  /\ raised = ""
  /\ resolved = [x \in Participants |-> 0]
  /\ plays = 0
  /\ events = <<>>

InitWith(decks) == InitOf(decks, InitCounts)

Init == InitWith(InitDecks)

InitLong == InitWith(LongDecks)

InitCounting == InitOf(CountingDecks, CountingCounts)

(***************************************************************************)
(* participant.reset                                                       *)
(***************************************************************************)
\* A reset that leaves the bet and the active flag as they are.
reset_hand_keeps_bet(x) ==
  /\ cards' = [cards EXCEPT ![x] = <<>>]
  /\ possible' = [possible EXCEPT ![x] = {0}]
  /\ value' = [value EXCEPT ![x] = 0]
  /\ bust' = [bust EXCEPT ![x] = FALSE]
  /\ UNCHANGED <<bet, active>>

\* A reset of the hands of all participants at once.
reset_hand_of_everyone(x) ==
  /\ cards' = [y \in Participants |-> <<>>]
  /\ possible' = [y \in Participants |-> {0}]
  /\ value' = [y \in Participants |-> 0]
  /\ bet' = [y \in Participants |-> 0]
  /\ active' = [y \in Participants |-> TRUE]
  /\ bust' = [y \in Participants |-> FALSE]

\* The standard attributes, as reset(running = False) leaves them.
reset_hand(x) ==
  /\ cards' = [cards EXCEPT ![x] = <<>>]
  /\ possible' = [possible EXCEPT ![x] = {0}]
  /\ value' = [value EXCEPT ![x] = 0]
  /\ bet' = [bet EXCEPT ![x] = 0]
  /\ active' = [active EXCEPT ![x] = TRUE]
  /\ bust' = [bust EXCEPT ![x] = FALSE]

reset(x, running) ==
  /\ reset_hand(x)
  /\ IF running
       THEN /\ runV' = [runV EXCEPT ![x] = <<>>]
            /\ runW' = [runW EXCEPT ![x] = <<>>]
            /\ resolved' = [resolved EXCEPT ![x] = 0]
       ELSE UNCHANGED <<runV, runW, resolved>>

(***************************************************************************)
(* participant.set_bet                                                     *)
(***************************************************************************)
\* The argument is <<>> for None (the default) and <<b>> for the bet b.
set_bet(x, b) ==
  /\ bet' = [bet EXCEPT ![x] = IF b = <<>> THEN MIN_BET ELSE b[1]]
  /\ UNCHANGED <<cards, possible, value, active, bust>>

(***************************************************************************)
(* participant.set_bet_counting                                            *)
(*                                                                         *)
(* true_count is the quotient                                              *)
(*   count * N_CARD_EACH_DECK * len(CARDS) / sum(num_cards)                *)
(* and is kept as its numerator over sum(num_cards).  Bets are integers in *)
(* this model, so the method is applied where bet_value is a whole number. *)
(***************************************************************************)
\* true_count times sum(num_cards).
true_count_times_sum(c) == c * N_CARD_EACH_DECK * Len(CARDS)

\* (true_count - 1) * MIN_BET is a whole number.
WholeBet(c, deck) ==
  ((true_count_times_sum(c) - sum(deck)) * MIN_BET) % sum(deck) = 0

\* max((true_count - 1) * MIN_BET, 0)
bet_value(c, deck) ==
  LET scaled == (true_count_times_sum(c) - sum(deck)) * MIN_BET
  IN  IF scaled > 0 THEN scaled \div sum(deck) ELSE 0

\* A bet sizing that keeps a bet below the minimum.
set_bet_counting_keeps_small_bets(x, c, deck) == set_bet(x, <<bet_value(c, deck)>>)

set_bet_counting(x, c, deck) ==
  IF bet_value(c, deck) < MIN_BET
    THEN set_bet(x, <<0>>)
    ELSE set_bet(x, <<bet_value(c, deck)>>)

(***************************************************************************)
(* participant.check_bust and participant.hit                              *)
(***************************************************************************)
\* The dealer's standoff allowance given to every participant.
check_bust_standoff_for_all(x, val1, val2) == val1 + val2 <= 21 + 1

\* True when the total val1 + val2 is kept (the name follows the source).
check_bust(x, val1, val2) ==
  LET dealer_stdoff == IF ptype(x) = "d" THEN 1 ELSE 0
  IN  val1 + val2 <= 21 + dealer_stdoff

\* A choice that ignores the probabilities.
Drawable_uniform(deck) == Ranks

\* The ranks np.random.choice can return: those of positive probability.
Drawable(deck) == {index \in Ranks : deck[index] > 0}

\* updated_num_cards and updated_count of a hit that drew the rank at index.
draw_num_cards(deck, index) == [deck EXCEPT ![index] = @ - 1]

\* A count that forgets the high cards.
draw_count_of_low_cards(c, index) == c + (IF CARDS_COUNT(index) > 0 THEN 1 ELSE 0)

draw_count(c, index) == c + CARDS_COUNT(index)

\* The totals that check_bust keeps when a card of the rank at index is
\* added to a hand of x with the given totals.
kept_totals(x, totals, index) ==
  {w[1] + w[2] : w \in {v \in totals \X VALUE(index) :
                           check_bust(x, v[1], v[2])}}

\* The totals of x's hand after a card of the rank at index.
hit_possible(x, index) == kept_totals(x, possible[x], index)

\* What hit does to the participant once the rank at index is drawn.
hit_hand(x, index, double) ==
  LET kept == hit_possible(x, index)
      nowBust == bust[x] \/ kept = {}
  IN  /\ possible' = [possible EXCEPT ![x] = kept]
      /\ bust' = [bust EXCEPT ![x] = nowBust]
      /\ cards' = [cards EXCEPT ![x] = Append(@, CARDS[index])]
      /\ value' = [value EXCEPT ![x] = IF nowBust THEN 0 ELSE Max(kept)]
      /\ IF double
           THEN /\ bet' = [bet EXCEPT ![x] = @ * 2]
                /\ active' = [active EXCEPT ![x] = FALSE]
           ELSE UNCHANGED <<bet, active>>

\* The hand of x after hits that drew the ranks at the indices of drawn, in
\* order, from an empty hand.
RECURSIVE Dealt(_, _)
Dealt(x, drawn) ==
  IF drawn = <<>>
    THEN [cards |-> <<>>, possible |-> {0}, value |-> 0, bust |-> FALSE]
    ELSE LET before == Dealt(x, SubSeq(drawn, 1, Len(drawn) - 1))
             index == drawn[Len(drawn)]
             kept == kept_totals(x, before.possible, index)
             nowBust == before.bust \/ kept = {}
         IN  [cards |-> Append(before.cards, CARDS[index]),
              possible |-> kept,
              value |-> IF nowBust THEN 0 ELSE Max(kept),
              bust |-> nowBust]

(***************************************************************************)
(* participant.result                                                      *)
(***************************************************************************)
\* A result that stops before the comparison of the two values.
final_result_without_comparison(x, dealer) ==
  IF value[dealer] = 22 THEN 0
  ELSE IF Len(cards[x]) = 2 /\ value[x] = 21 THEN 2
  ELSE IF value[x] = 21 \/ Len(cards[x]) >= 5 THEN 1
  ELSE IF bust[x] THEN -1
  ELSE IF bust[dealer] THEN 1
  ELSE 0

\* final_result as the four checks of result leave it, each overriding the
\* one before: -1 a loss, 0 a standoff, 1 a win, 2 a blackjack.
final_result(x, dealer) ==
  LET bustCheck ==
        IF bust[x] THEN -1 ELSE IF bust[dealer] THEN 1 ELSE 0
      blackjackCheck ==
        IF Len(cards[x]) = 2 /\ value[x] = 21 THEN 2
        ELSE IF value[x] = 21 \/ Len(cards[x]) >= 5 THEN 1
        ELSE bustCheck
      standoffCheck ==
        IF value[dealer] = 22 THEN 0 ELSE blackjackCheck
  IN  IF value[dealer] > value[x] THEN -1
      ELSE IF value[dealer] < value[x] THEN 1
      ELSE standoffCheck

\* The entry appended to runW, in half units.
winnings(r, b) ==
  CASE r = 0 -> 0
    [] r = -1 -> (0 - b) * Half
    [] r = 1 -> b * Half
    [] r = 2 -> (b * 3 * Half) \div 2

\* A result whose chain of payout branches has no branch for a standoff.
result_no_standoff_branch(x, dealer) ==
  /\ runV' = [runV EXCEPT ![x] = Append(@, value[x])]
  /\ runW' = [runW EXCEPT ![x] =
       IF final_result(x, dealer) = 0 THEN @
       ELSE Append(@, winnings(final_result(x, dealer), bet[x]))]
  /\ resolved' = [resolved EXCEPT ![x] = @ + 1]
  /\ reset_hand(x)

result(x, dealer) ==
  /\ runV' = [runV EXCEPT ![x] = Append(@, value[x])]
  /\ runW' = [runW EXCEPT ![x] = Append(@, winnings(final_result(x, dealer), bet[x]))]
  /\ resolved' = [resolved EXCEPT ![x] = @ + 1]
  /\ reset_hand(x)

(***************************************************************************)
(* participant.play_strategy                                               *)
(*                                                                         *)
(* The strategy tables are read from files by set_strategy.  A call sees   *)
(* one table: a cell read for the first time has any of the three actions, *)
(* and a cell read again has the action it had.  ps.key is the cell read   *)
(* last and ps.action its action; an earlier cell is not read again, since *)
(* every card adds at least 1 to every total of the hand.                  *)
(***************************************************************************)
\* The cell a lookup reads: the table (soft or hard), the column and the row.
strategy_key(x, dealer) ==
  << Cardinality(possible[x]) > 1,
     IF dealer = None THEN "Value" ELSE ToString(value[dealer]),
     value[x] >>

\* The actions the cell at key can hold, given the cell read last.  The
\* table has a cell for every key that is read.
lookup(key) == IF ps.key = key THEN {ps.action} ELSE Actions

\* A loop that goes on after a double.
loop_cond_ignoring_active(x, action) == action # "S" /\ ~bust[x]

\* The condition of the while loop.
loop_cond(x, action) == action # "S" /\ ~bust[x] /\ active[x]

\* The frame play_strategy starts with.  bet_at_call is history: the bet
\* of x when the call started.
play_strategy_frame(x, dealer, caller) ==
  [on |-> TRUE, who |-> x, dealer |-> dealer, action |-> "",
   updated_num_cards |-> num_cards, updated_count |-> count, key |-> <<>>,
   caller |-> caller, bet_at_call |-> bet[x]]

\* A loop body with no branch for D: only H draws.
play_strategy_body_without_D(key, action) ==
  LET x == ps.who
  IN  IF action = "H"
        THEN IF sum(ps.updated_num_cards) = 0
               THEN /\ raised' = "ZeroDivisionError"
                    /\ ps' = NoFrame
                    /\ pc' = "idle"
                    /\ UNCHANGED hand
               ELSE \E index \in Drawable(ps.updated_num_cards) :
                      /\ hit_hand(x, index, FALSE)
                      /\ ps' = [ps EXCEPT
                           !.action = action,
                           !.key = key,
                           !.updated_num_cards = draw_num_cards(@, index),
                           !.updated_count = draw_count(@, index)]
                      /\ UNCHANGED <<raised, pc>>
        ELSE /\ ps' = [ps EXCEPT !.action = action, !.key = key]
             /\ UNCHANGED <<hand, raised, pc>>

\* One pass of the loop body with the action read from the table: a hit
\* for H, a hit with double for D, nothing for S.  A hit on an empty deck
\* divides by zero before anything is changed; the exception ends
\* play_strategy and, under play(), play() as well.
play_strategy_body(key, action) ==
  LET x == ps.who
  IN  IF action \in {"H", "D"}
        THEN IF sum(ps.updated_num_cards) = 0
               THEN /\ raised' = "ZeroDivisionError"
                    /\ ps' = NoFrame
                    /\ pc' = "idle"
                    /\ UNCHANGED hand
               ELSE \E index \in Drawable(ps.updated_num_cards) :
                      /\ hit_hand(x, index, action = "D")
                      /\ ps' = [ps EXCEPT
                           !.action = action,
                           !.key = key,
                           !.updated_num_cards = draw_num_cards(@, index),
                           !.updated_count = draw_count(@, index)]
                      /\ UNCHANGED <<raised, pc>>
        ELSE /\ ps' = [ps EXCEPT !.action = action, !.key = key]
             /\ UNCHANGED <<hand, raised, pc>>

\* One iteration of the while loop.
play_strategy_loop ==
  /\ ps.on
  /\ loop_cond(ps.who, ps.action)
  /\ LET key == strategy_key(ps.who, ps.dealer)
     IN  \E action \in lookup(key) : play_strategy_body(key, action)
  /\ UNCHANGED <<runV, runW, players, num_cards, count, i, resolved, plays,
                 events>>

\* The loop has ended: updated_num_cards and updated_count are returned and
\* the caller stores them.  Under play() the call was line 68 and line 69
\* is next.
play_strategy_return ==
  /\ ps.on
  /\ ~loop_cond(ps.who, ps.action)
  /\ num_cards' = ps.updated_num_cards
  /\ count' = ps.updated_count
  /\ ps' = NoFrame
  /\ IF ps.caller = "play"
       THEN pc' = "l69" /\ i' = 1
       ELSE UNCHANGED <<pc, i>>
  /\ UNCHANGED <<hand, runV, runW, players, resolved, plays, events, raised>>

(***************************************************************************)
(* Calls of the participant methods from outside the game class, by a      *)
(* caller that keeps the deck and the running count in num_cards and       *)
(* count and stores what hit and play_strategy return, as play() does.     *)
(***************************************************************************)
\* No call is running and none has raised: an exception is not caught, it
\* ends the run.
Idle == pc = "idle" /\ ~ps.on /\ raised = ""

game == <<players, pc, i, plays, events>>

\* The arguments of set_bet: None, and the odd bet 1.
BetArgs == {<<>>, <<1>>}

reset_call ==
  /\ Idle
  /\ \E x \in Called, running \in BOOLEAN : reset(x, running)
  /\ UNCHANGED <<game, ps, num_cards, count, raised>>

set_bet_call ==
  /\ Idle
  /\ \E x \in CalledPlayers, b \in BetArgs : set_bet(x, b)
  /\ UNCHANGED <<game, ps, num_cards, count, runV, runW, resolved, raised>>

\* set_strategy with a strategy that sizes the bet by the count: the
\* division by sum(num_cards) raises on an empty deck.
set_bet_counting_call ==
  /\ Idle
  /\ \E x \in CalledPlayers :
       IF sum(num_cards) = 0
         THEN /\ raised' = "ZeroDivisionError"
              /\ UNCHANGED hand
         ELSE /\ WholeBet(count, num_cards)
              /\ set_bet_counting(x, count, num_cards)
              /\ UNCHANGED raised
  /\ UNCHANGED <<game, ps, num_cards, count, runV, runW, resolved>>

\* A hit that applies the double before it computes the probabilities.
hit_call_doubles_before_failing ==
  /\ Idle
  /\ \E x \in Called, double \in BOOLEAN :
       IF sum(num_cards) = 0
         THEN /\ raised' = "ZeroDivisionError"
              /\ bet' = [bet EXCEPT ![x] = IF double THEN @ * 2 ELSE @]
              /\ active' = [active EXCEPT ![x] = IF double THEN FALSE ELSE @]
              /\ UNCHANGED <<cards, possible, value, bust, num_cards, count>>
         ELSE \E index \in Drawable(num_cards) :
                /\ hit_hand(x, index, double)
                /\ num_cards' = draw_num_cards(num_cards, index)
                /\ count' = draw_count(count, index)
                /\ UNCHANGED raised
  /\ UNCHANGED <<game, ps, runV, runW, resolved>>

hit_call ==
  /\ Idle
  /\ \E x \in Called, double \in BOOLEAN :
       IF sum(num_cards) = 0
         THEN /\ raised' = "ZeroDivisionError"
              /\ UNCHANGED <<hand, num_cards, count>>
         ELSE \E index \in Drawable(num_cards) :
                /\ hit_hand(x, index, double)
                /\ num_cards' = draw_num_cards(num_cards, index)
                /\ count' = draw_count(count, index)
                /\ UNCHANGED raised
  /\ UNCHANGED <<game, ps, runV, runW, resolved>>

play_strategy_call ==
  /\ Idle
  /\ \E x \in Called :
       ps' = play_strategy_frame(x, IF x = Dealer THEN None ELSE Dealer, "call")
  /\ UNCHANGED <<hand, game, num_cards, count, runV, runW, resolved, raised>>

result_call ==
  /\ Idle
  /\ \E x \in CalledPlayers :
       /\ resolved[x] < MaxRounds
       /\ result(x, Dealer)
  /\ UNCHANGED <<game, ps, num_cards, count, raised>>

Next ==
  \/ reset_call
  \/ set_bet_call
  \/ hit_call
  \/ play_strategy_call
  \/ play_strategy_loop
  \/ play_strategy_return
  \/ result_call

Spec == Init /\ [][Next]_vars

\* The same calls on a game constructed with a longer shoe.
SpecLong == InitLong /\ [][Next]_vars

(***************************************************************************)
(* result called on hands that were dealt from a shoe of eight decks: aces, *)
(* twos and tens, drawn in the order of their ranks.                       *)
(***************************************************************************)
DealtRanks == {1, 2, 10}

\* The sequences of at most n ranks of DealtRanks, in ascending order.
AscendingRanks(n) ==
  UNION {{drawn \in [1..k -> DealtRanks] :
            \A j \in 1..(k - 1) : drawn[j] <= drawn[j + 1]} : k \in 0..n}

\* The number of cards of the rank at index in drawn.
CountOf(drawn, index) == Cardinality({k \in DOMAIN drawn : drawn[k] = index})

RECURSIVE WeightOf(_)
WeightOf(drawn) ==
  IF drawn = <<>> THEN 0 ELSE CARDS_COUNT(Head(drawn)) + WeightOf(Tail(drawn))

\* The bets a player can hold: the initial 0 and the bets set_bet sets.
BetValues == {0} \cup {IF b = <<>> THEN MIN_BET ELSE b[1] : b \in BetArgs}

InitResult ==
  \E dealt \in [Participants -> AscendingRanks(MaxHand)] :
    /\ Len(dealt[Dealer]) <= MaxDealerHand
    /\ Len(dealt["p2"]) <= 1
    /\ cards = [x \in Participants |-> Dealt(x, dealt[x]).cards]
    /\ possible = [x \in Participants |-> Dealt(x, dealt[x]).possible]
    /\ value = [x \in Participants |-> Dealt(x, dealt[x]).value]
    /\ bust = [x \in Participants |-> Dealt(x, dealt[x]).bust]
    /\ bet \in {b \in [Participants -> BetValues] :
                   b[Dealer] = 0 /\ b["p2"] = MIN_BET}
    /\ active = [x \in Participants |-> TRUE]
    /\ runV = [x \in Participants |-> <<>>]
    /\ runW = [x \in Participants |-> <<>>]
    /\ players = <<>>
    /\ num_cards = [index \in Ranks |->
         32 - (CountOf(dealt[Dealer], index) + CountOf(dealt["p1"], index)
                 + CountOf(dealt["p2"], index))]
    /\ count = WeightOf(dealt[Dealer]) + WeightOf(dealt["p1"])
                 + WeightOf(dealt["p2"])
    /\ pc = "idle"
    /\ i = 1
    /\ ps = NoFrame
    /\ raised = ""
    /\ resolved = [x \in Participants |-> 0]
    /\ plays = 0
    /\ events = <<>>

\* result called on any player, against the dealer.
result_any ==
  /\ Idle
  /\ \E x \in AllPlayers :
       /\ resolved[x] < MaxRounds
       /\ result(x, Dealer)
  /\ UNCHANGED <<game, ps, num_cards, count, raised>>

SpecResult == InitResult /\ [][result_any]_vars

\* Bets set and sized on the shoes and running counts of InitCounting.
NextCounting ==
  \/ set_bet_call
  \/ set_bet_counting_call

SpecCounting == InitCounting /\ [][NextCounting]_vars

(***************************************************************************)
(* blackjack.add_player and blackjack.play                                 *)
(***************************************************************************)
Range(seq) == {seq[k] : k \in DOMAIN seq}

add_player ==
  /\ Idle
  /\ \E x \in AllPlayers \ Range(players) : players' = Append(players, x)
  /\ UNCHANGED <<hand, runV, runW, num_cards, count, pc, i, ps, raised,
                 resolved, plays, events>>

\* A player's bet is set before a round.
play_set_bet ==
  /\ Idle
  /\ \E x \in Range(players), b \in BetArgs : set_bet(x, b)
  /\ UNCHANGED <<game, ps, num_cards, count, runV, runW, resolved, raised>>

play_call ==
  /\ Idle
  /\ plays < MaxPlays
  /\ pc' = "l63"
  /\ i' = 1
  /\ plays' = plays + 1
  /\ events' = << <<"play", Len(players)>> >>
  /\ UNCHANGED <<hand, runV, runW, players, num_cards, count, ps, raised,
                 resolved>>

\* self.num_cards, self.count = x.hit(self.num_cards, self.count), after
\* which play() is at line line with loop position k.  A hit on an empty deck
\* raises, which ends play().
play_hit(x, line, k) ==
  IF sum(num_cards) = 0
    THEN /\ raised' = "ZeroDivisionError"
         /\ pc' = "idle"
         /\ UNCHANGED <<hand, num_cards, count, i, events>>
    ELSE \E index \in Drawable(num_cards) :
           /\ hit_hand(x, index, FALSE)
           /\ num_cards' = draw_num_cards(num_cards, index)
           /\ count' = draw_count(count, index)
           /\ pc' = line
           /\ i' = k
           /\ events' = Append(events, <<"hit", x>>)
           /\ UNCHANGED raised

\* Line 63: the first card of every player.
play_l63 ==
  /\ pc = "l63"
  /\ IF i <= Len(players)
       THEN play_hit(players[i], "l63", i + 1)
       ELSE /\ pc' = "l64"
            /\ UNCHANGED <<hand, num_cards, count, i, events, raised>>
  /\ UNCHANGED <<runV, runW, players, ps, resolved, plays>>

\* Line 64: the dealer's card.
play_l64 ==
  /\ pc = "l64"
  /\ play_hit(Dealer, "l65", 1)
  /\ UNCHANGED <<runV, runW, players, ps, resolved, plays>>

\* Line 65: the second card of every player.
play_l65 ==
  /\ pc = "l65"
  /\ IF i <= Len(players)
       THEN play_hit(players[i], "l65", i + 1)
       ELSE /\ pc' = "l67"
            /\ i' = 1
            /\ UNCHANGED <<hand, num_cards, count, events, raised>>
  /\ UNCHANGED <<runV, runW, players, ps, resolved, plays>>

\* Line 67: player.play_strategy(self.num_cards, self.count, dealer) for
\* every player.  The name dealer is bound nowhere (the game's dealer is
\* self.dealer), so evaluating the arguments of the first call raises
\* NameError, which ends play().
play_l67 ==
  /\ pc = "l67"
  /\ IF i <= Len(players)
       THEN raised' = "NameError" /\ pc' = "idle"
       ELSE raised' = raised /\ pc' = "l68"
  /\ UNCHANGED <<hand, runV, runW, players, num_cards, count, i, ps,
                 resolved, plays, events>>

\* Line 68: the dealer's play_strategy call, with no dealer.
play_l68 ==
  /\ pc = "l68"
  /\ ~ps.on
  /\ ps' = play_strategy_frame(Dealer, None, "play")
  /\ events' = Append(events, <<"play_strategy", Dealer, None>>)
  /\ UNCHANGED <<hand, runV, runW, players, num_cards, count, pc, i, raised,
                 resolved, plays>>

\* Line 69: result for every player; lines 70-71: the return.
play_l69 ==
  /\ pc = "l69"
  /\ IF i <= Len(players)
       THEN /\ result(players[i], Dealer)
            /\ i' = i + 1
            /\ events' = Append(events, <<"result", players[i]>>)
            /\ UNCHANGED pc
       ELSE /\ pc' = "idle"
            /\ UNCHANGED <<hand, runV, runW, resolved, i, events>>
  /\ UNCHANGED <<players, num_cards, count, ps, raised, plays>>

NextPlay ==
  \/ add_player
  \/ play_set_bet
  \/ play_call
  \/ play_l63
  \/ play_l64
  \/ play_l65
  \/ play_l67
  \/ play_l68
  \/ play_strategy_loop
  \/ play_strategy_return
  \/ play_l69

SpecPlay == Init /\ [][NextPlay]_vars

(***************************************************************************)
(* The claims.  A step appends to runW[x] exactly when it is a result call *)
(* on x, and the state before the step holds the two hands result reads.   *)
(***************************************************************************)
\* The step is a result call on x.
Resolves(x) == Len(runW'[x]) = Len(runW[x]) + 1

\* The payout the step has recorded for x, in half units.
Recorded(x) == runW'[x][Len(runW'[x])]

\* C1: whenever result is called with a dealer whose value is exactly 22,
\* the payout appended to the player's runW is 0, whatever the player's hand
\* and bet.
C1_DealerStandoffPush ==
  [][\A x \in AllPlayers :
       (Resolves(x) /\ value[Dealer] = 22) => Recorded(x) = 0]_vars

\* C2: whenever result is called on a player holding exactly 2 cards with
\* value 21, the payout appended to runW is 1.5 times the bet, whatever the
\* dealer's hand.
C2_BlackjackPays3To2 ==
  [][\A x \in AllPlayers :
       (Resolves(x) /\ Len(cards[x]) = 2 /\ value[x] = 21)
         => Recorded(x) * 2 = bet[x] * 3 * Half]_vars

\* C3: whenever result is called on a player who is not bust and holds 5 or
\* more cards, the payout appended to runW is +bet, whatever the dealer's
\* value.
C3_FiveCardsWin ==
  [][\A x \in AllPlayers :
       (Resolves(x) /\ ~bust[x] /\ Len(cards[x]) >= 5)
         => Recorded(x) = bet[x] * Half]_vars

\* The step is a successful hit by x: a card is appended to x's hand.
Draws(x) == Len(cards'[x]) = Len(cards[x]) + 1

\* The deck the next hit draws from: the local deck of a running
\* play_strategy call, the caller's deck otherwise.
DeckInUse == IF ps.on THEN ps.updated_num_cards ELSE num_cards

\* C4: every successful hit returns a deck that differs from its input in
\* exactly one rank, whose count was positive and is lower by exactly 1, so
\* the sum of the counts is lower by exactly 1; and no count is negative
\* after any sequence of draws.
C4_HitTakesOneCard ==
  /\ [](\A index \in Ranks : DeckInUse[index] >= 0)
  /\ [][(\E x \in Participants : Draws(x)) =>
          /\ \E index \in Ranks :
               /\ DeckInUse[index] > 0
               /\ DeckInUse' = [DeckInUse EXCEPT ![index] = @ - 1]
          /\ sum(DeckInUse') = sum(DeckInUse) - 1]_vars

\* A rank has been drawn to its last card while other ranks remain and both
\* the dealer and a player have drawn.
C4_Witness ==
  /\ \E index \in Ranks : num_cards[index] = 0 /\ CARDS[index] \in Range(cards["p1"])
  /\ sum(num_cards) > 0
  /\ cards[Dealer] # <<>>

\* C6: reset(running = False) sets cards = [], possible = [0], value = 0,
\* bet = 0, active = true and bust = false from any state of the participant
\* and leaves runV and runW unchanged; reset(running = True) does the same
\* and sets runV and runW to empty.
C6_ResetClears ==
  [][\A x \in Participants, running \in BOOLEAN :
       (reset_call /\ reset(x, running)) =>
          /\ cards'[x] = <<>>
          /\ possible'[x] = {0}
          /\ value'[x] = 0
          /\ bet'[x] = 0
          /\ active'[x]
          /\ ~bust'[x]
          /\ IF running
               THEN runV'[x] = <<>> /\ runW'[x] = <<>>
               ELSE runV'[x] = runV[x] /\ runW'[x] = runW[x]
          /\ \A y \in Participants \ {x} :
               /\ runV'[y] = runV[y]
               /\ runW'[y] = runW[y]]_vars

\* The dealer, who is reset by no other operation, has been reset after the
\* whole deck was drawn, and the player's history is still there.
C6_Witness ==
  /\ sum(num_cards) = 0
  /\ cards[Dealer] = <<>>
  /\ runV["p1"] # <<>>
  /\ bet["p1"] = 0

\* C9: in every state, bust is true exactly when there is no possible total;
\* value is the largest possible total when not bust and 0 when bust; and
\* every possible total of a hand of at least one card is at most 21 for a
\* player and at most 22 for the dealer.
C9_BustIffNoTotal ==
  \A x \in Participants :
    /\ bust[x] <=> (possible[x] = {})
    /\ value[x] = IF bust[x] THEN 0 ELSE Max(possible[x])
    /\ cards[x] # <<>> =>
         \A t \in possible[x] : t <= IF ptype(x) = "d" THEN 22 ELSE 21

\* The dealer holds a total of exactly 22 and is not bust, after a hand of
\* the player was reset.
C9_Witness ==
  /\ value[Dealer] = 22
  /\ possible[Dealer] = {22}
  /\ ~bust[Dealer]
  /\ possible["p1"] = {0}
  /\ sum(num_cards) = 0

\* C10: every result call appends exactly one entry to runV and exactly one
\* to runW, so in every state the two have the same length, the number of
\* result calls on the player since the last reset(running = True).
C10_OneEntryPerResult ==
  \A x \in Participants :
    /\ Len(runV[x]) = resolved[x]
    /\ Len(runW[x]) = resolved[x]

\* A player has been resolved with a standoff.
C10_Witness ==
  /\ resolved["p1"] = MaxRounds
  /\ runW["p1"][MaxRounds] = 0
  /\ runV["p1"][MaxRounds] > 0

(***************************************************************************)
(* play_strategy is synchronous code: once called, its loop keeps running  *)
(* and, when the loop has ended, it returns.                               *)
(***************************************************************************)
NextStrategy ==
  \/ reset_call
  \/ set_bet_call
  \/ hit_call
  \/ play_strategy_call
  \/ play_strategy_loop
  \/ play_strategy_return

SpecFair ==
  /\ Init
  /\ [][NextStrategy]_vars
  /\ WF_vars(play_strategy_loop)
  /\ WF_vars(play_strategy_return)

\* C7: for every strategy table with cells in {H, S, D} and every finite
\* deck, a running play_strategy call ends: it returns once the participant
\* has stood, is bust or is inactive, or a hit fails on the empty deck.
C7_PlayStrategyTerminates == ps.on ~> ~ps.on

\* A call whose loop has ended after a Double that followed hits.
C7_Witness ==
  /\ ps.on
  /\ ps.action = "D"
  /\ ~active[ps.who]
  /\ ~bust[ps.who]
  /\ Len(cards[ps.who]) >= 3

(***************************************************************************)
(* The rounds of play().                                                   *)
(***************************************************************************)
\* The event tag for every player of pl, in order.
EventsOf(tag, pl) == [k \in 1..Len(pl) |-> <<tag, pl[k]>>]

\* What a round over the players pl does, in order: a card for every player,
\* a card for the dealer, a second card for every player, play_strategy of
\* every player against the dealer, play_strategy of the dealer with no
\* dealer, result for every player.
ExpectedEvents(pl) ==
  << <<"play", Len(pl)>> >>
    \o EventsOf("hit", pl)
    \o << <<"hit", Dealer>> >>
    \o EventsOf("hit", pl)
    \o [k \in 1..Len(pl) |-> <<"play_strategy", pl[k], Dealer>>]
    \o << <<"play_strategy", Dealer, None>> >>
    \o EventsOf("result", pl)

IsPrefix(s, t) == Len(s) <= Len(t) /\ s = SubSeq(t, 1, Len(s))

\* The players of the running (or last) round.
RoundPlayers == SubSeq(players, 1, events[1][2])

\* C5: at the start of every round of play(), the dealer and every player
\* have an empty hand (cards = [], possible = {0}, value = 0), bust = false
\* and active = true.
C5_FreshHandsEachRound ==
  (pc = "l63" /\ Len(events) = 1) =>
    \A x \in {Dealer} \cup Range(players) :
      /\ cards[x] = <<>>
      /\ possible[x] = {0}
      /\ value[x] = 0
      /\ ~bust[x]
      /\ active[x]

\* C8: every round of play() goes through the expected events in order and,
\* unless the deck runs out, through all of them; and when the first
\* player's play_strategy is about to start, every player holds exactly 2
\* cards and the dealer exactly 1.
C8_RoundOrder ==
  plays > 0 =>
    /\ IsPrefix(events, ExpectedEvents(RoundPlayers))
    /\ (pc = "idle" /\ raised # "ZeroDivisionError") =>
         events = ExpectedEvents(RoundPlayers)
    /\ (pc = "l67" /\ i = 1 /\ players # <<>>) =>
         /\ \A x \in Range(players) : Len(cards[x]) = 2
         /\ Len(cards[Dealer]) = 1

(***************************************************************************)
(* Hits on an empty deck.                                                  *)
(***************************************************************************)
\* The step is a hit attempted on a deck whose counts sum to 0: a hit
\* called directly, or the hit of a play_strategy pass that read H or D.
HitOnEmptyDeck ==
  \/ hit_call /\ sum(num_cards) = 0
  \/ play_strategy_loop /\ sum(ps.updated_num_cards) = 0 /\ ps'.action # "S"

\* C11: a hit on a deck whose total remaining count is 0 raises instead of
\* returning a card, and leaves the deck counts, the running count and the
\* participant's cards, possible totals, value, bet, active and bust flags
\* unchanged.
C11_HitOnEmptyDeckFails ==
  [][HitOnEmptyDeck =>
       /\ raised' = "ZeroDivisionError"
       /\ UNCHANGED <<hand, num_cards, count>>]_vars

\* A hit has failed on the empty deck after the dealer and a player with a
\* bet had drawn all of it.
C11_Witness ==
  /\ raised = "ZeroDivisionError"
  /\ sum(num_cards) = 0
  /\ cards[Dealer] # <<>>
  /\ cards["p1"] # <<>>
  /\ bet["p1"] > 0


(***************************************************************************)
(* Bet sizing by the count.                                                *)
(***************************************************************************)
\* C12: after set_bet_counting(count, num_cards) on a non-empty deck the
\* bet is never negative and never strictly between 0 and MIN_BET: it is 0
\* when the true count is below 2 and (true count - 1) * MIN_BET otherwise,
\* the true count being count / sum(num_cards) * N_CARD_EACH_DECK * the
\* number of ranks.
C12_CountingBet ==
  [][\A x \in CalledPlayers :
       (/\ set_bet_counting_call
        /\ sum(num_cards) > 0
        /\ set_bet_counting(x, count, num_cards)) =>
         LET total == sum(num_cards)
             scaled == count * N_CARD_EACH_DECK * Len(CARDS)
         IN  /\ bet'[x] >= 0
             /\ ~(0 < bet'[x] /\ bet'[x] < MIN_BET)
             /\ IF scaled < 2 * total
                  THEN bet'[x] = 0
                  ELSE bet'[x] * total = (scaled - total) * MIN_BET]_vars

\* A bet above the minimum, sized on a shoe whose true count is above 2.
C12_Witness ==
  /\ sum(num_cards) > 0
  /\ bet["p1"] > MIN_BET
  /\ bet["p1"] * sum(num_cards) =
       (count * N_CARD_EACH_DECK * Len(CARDS) - sum(num_cards)) * MIN_BET
  /\ raised = ""

(***************************************************************************)
(* Doubling.                                                               *)
(***************************************************************************)
\* C13: within one play_strategy run, a Double draws exactly one card,
\* multiplies the bet by 2 and sets active to false, and the run does no
\* further lookup or draw: its next step is the return, with the hand as
\* the Double left it.  So the bet is the bet at the start of the run until
\* a Double, and exactly twice it from then on.
C13_DoubleEndsTurn ==
  /\ [][(play_strategy_loop /\ ps'.action = "D") =>
          /\ Draws(ps.who)
          /\ sum(ps'.updated_num_cards) = sum(ps.updated_num_cards) - 1
          /\ bet'[ps.who] = 2 * bet[ps.who]
          /\ ~active'[ps.who]]_vars
  /\ [][(ps.on /\ ps.action = "D") =>
          /\ play_strategy_return
          /\ UNCHANGED hand]_vars
  /\ [](ps.on =>
          bet[ps.who] = IF ps.action = "D" THEN 2 * ps.bet_at_call
                        ELSE ps.bet_at_call)

\* The player has doubled a bet of MIN_BET on the third card of the hand,
\* and the run has not returned yet.
C13_Witness ==
  /\ ps.on
  /\ ps.who = "p1"
  /\ ps.action = "D"
  /\ ps.bet_at_call = MIN_BET
  /\ bet["p1"] = 2 * MIN_BET
  /\ Len(cards["p1"]) = 3


(***************************************************************************)
(* The payout of result.                                                   *)
(***************************************************************************)
\* C14: whenever result is called on a player whose bust flag is true, the
\* payout appended to runW is -bet, for every dealer hand, bust or not, and
\* every number of cards the player holds, 5 or more included.
C14_BustLoses ==
  [][\A x \in AllPlayers :
       (Resolves(x) /\ bust[x]) => Recorded(x) = (0 - bet[x]) * Half]_vars


\* The payout, in half units, of the rules of result that come before the
\* comparison of the values, a later rule overriding an earlier one: the
\* bust rule, the blackjack rule and the dealer's standoff at 22.
EarlierPayout(x) ==
  IF value[Dealer] = 22 THEN 0
  ELSE IF Len(cards[x]) = 2 /\ value[x] = 21 THEN (bet[x] * 3 * Half) \div 2
  ELSE IF value[x] = 21 \/ Len(cards[x]) >= 5 THEN bet[x] * Half
  ELSE IF bust[x] THEN (0 - bet[x]) * Half
  ELSE IF bust[Dealer] THEN bet[x] * Half
  ELSE 0

CountInUse == IF ps.on THEN ps.updated_count ELSE count

\* The sum, over the first n ranks, of the weight of the rank times the
\* number of its cards that are in from and no longer in deck.
RECURSIVE WeightDrawn(_, _, _)
WeightDrawn(from, deck, n) ==
  IF n = 0 THEN 0
  ELSE CARDS_COUNT(n) * (from[n] - deck[n]) + WeightDrawn(from, deck, n - 1)

\* C16: each successful hit adds to the running count exactly the weight
\* (CARDS_COUNT) of the rank whose deck count it decremented; so after any
\* sequence of draws the running count is the initial running count plus
\* the sum over the ranks of weight * (initial count - remaining count).
C16_CountFollowsDeck ==
  /\ [][(\E x \in Participants : Draws(x)) =>
          \E index \in Ranks :
            /\ DeckInUse' = [DeckInUse EXCEPT ![index] = @ - 1]
            /\ CountInUse' = CountInUse + CARDS_COUNT(index)]_vars
  /\ [](\E from \in InitDecks, c \in InitCounts :
          CountInUse = c + WeightDrawn(from, DeckInUse, Len(CARDS)))

\* The whole deck has been drawn, the last card inside play_strategy: the
\* count is the weight of the ace, the two and the two tens.
C16_Witness ==
  /\ ps.on
  /\ sum(ps.updated_num_cards) = 0
  /\ sum(num_cards) = 1
  /\ ps.updated_count = CARDS_COUNT(1) + CARDS_COUNT(2) + 2 * CARDS_COUNT(10)


(***************************************************************************)
(* The deck over the rounds of play().  No hand is reset while the rounds  *)
(* of SpecPlay run, so the cards drawn are the cards held.                 *)
(***************************************************************************)
\* The number of cards of the rank at index that x holds.
HeldBy(x, index) ==
  Cardinality({k \in DOMAIN cards[x] : cards[x][k] = CARDS[index]})

\* The number of cards of the rank at index in all hands.
Held(index) == HeldBy(Dealer, index) + HeldBy("p1", index) + HeldBy("p2", index)

\* C17: a round of play() with any number of players that does not run out
\* of cards returns, and the deck it returns is the deck stored in the game,
\* in which every rank is lower by the number of cards of that rank drawn
\* and the total is lower by the number of cards drawn.
C17_RoundThreadsDeck ==
  (plays > 0 /\ pc = "idle" /\ raised # "ZeroDivisionError") =>
    /\ raised = ""
    /\ \E from \in InitDecks :
         /\ \A index \in Ranks : num_cards[index] = from[index] - Held(index)
         /\ sum(num_cards) =
              sum(from) - (Len(cards[Dealer]) + Len(cards["p1"]) + Len(cards["p2"]))


(***************************************************************************)
(* What result leaves alone.                                               *)
(***************************************************************************)
\* C18: result changes only the player it is called on: the dealer's cards,
\* possible totals, value, bet, bust and active flags, the deck counts, the
\* running count and every other participant's hand and history are
\* unchanged, so the players resolved one after the other are resolved
\* against the same dealer hand.
C18_ResultChangesOnlyItsPlayer ==
  [][\A x \in AllPlayers :
       Resolves(x) =>
         /\ num_cards' = num_cards
         /\ count' = count
         /\ \A y \in Participants \ {x} :
              /\ cards'[y] = cards[y]
              /\ possible'[y] = possible[y]
              /\ value'[y] = value[y]
              /\ bet'[y] = bet[y]
              /\ active'[y] = active[y]
              /\ bust'[y] = bust[y]
              /\ runV'[y] = runV[y]
              /\ runW'[y] = runW[y]]_vars

\* Two players have been resolved against a dealer who still holds 20 on two
\* cards: one has won with 21, the other has lost.
C18_Witness ==
  /\ value[Dealer] = 20
  /\ Len(cards[Dealer]) = 2
  /\ runV["p1"] = <<21>>
  /\ runW["p1"] = <<MIN_BET * Half>>
  /\ runW["p2"] = <<(0 - MIN_BET) * Half>>


=============================================================================
